---- MODULE Spec2Model ----
(***************************************************************************)
(* Model of scripts/batch_convert.py: BatchProcessor and the __main__      *)
(* driver.  File names are sequences of one-character strings so that      *)
(* pathlib's suffix / stem and str.lower() are computed, not assumed.      *)
(***************************************************************************)
EXTENDS Integers, Sequences, FiniteSets, TLC

\* ------------------------------------------------------------------ bounds
MaxEntries == 2          \* most entries the input directory holds
MaxLock == 7             \* most consecutive os.remove failures the OS produces
MaxComps == 2            \* most components after the prefix of a translated path
MaxWhere == 2            \* most lines `where bash.exe` prints

\* ------------------------------------------------------- program constants
MaxRetries == 6          \* while retries < 6

\* ------------------------------------------------------------ characters
UpperChars == <<"A","B","C","D","E","F","G","H","I","J","K","L","M",
                "N","O","P","Q","R","S","T","U","V","W","X","Y","Z">>
LowerChars == <<"a","b","c","d","e","f","g","h","i","j","k","l","m",
                "n","o","p","q","r","s","t","u","v","w","x","y","z">>

\* str.lower() on one character, tabulated for the upper-case letters
LowerMap ==
    [c \in {UpperChars[i] : i \in 1..26} |->
        LowerChars[CHOOSE i \in 1..26 : UpperChars[i] = c]]

Lower(c) == IF c \in DOMAIN LowerMap THEN LowerMap[c] ELSE c

LowerStr(s) == [i \in 1..Len(s) |-> Lower(s[i])]

\* str.rfind: the last index of ch in s, 0 when absent (Python: -1)
RFind(s, ch) ==
    IF \E i \in 1..Len(s) : s[i] = ch
    THEN CHOOSE i \in 1..Len(s) : s[i] = ch /\ \A j \in (i+1)..Len(s) : s[j] # ch
    ELSE 0

\* PurePath.suffix: name[i:] for the last dot, unless that dot is the first
\* or the last character of the name
Suffix(name) ==
    LET i == RFind(name, ".")
    IN IF i > 1 /\ i < Len(name) THEN SubSeq(name, i, Len(name)) ELSE << >>

\* PurePath.stem: name[:i] under the same condition, else the whole name
Stem(name) ==
    LET i == RFind(name, ".")
    IN IF i > 1 /\ i < Len(name) THEN SubSeq(name, 1, i - 1) ELSE name

\* the `in` operator of str: sub occurs in s
Contains(s, sub) ==
    \E i \in 1..(Len(s) - Len(sub) + 1) : SubSeq(s, i, i + Len(sub) - 1) = sub

DotWav == <<".", "w", "a", "v">>
DotBrr == <<".", "b", "r", "r">>

\* ------------------------------------------------------ the environment
\* Entries an input directory may hold: [name, kind]
EntryUniverse ==
    { [name |-> <<"a", ".", "w", "a", "v">>, kind |-> "file"],
      [name |-> <<"a", ".", "W", "A", "V">>, kind |-> "file"],
      [name |-> <<"b", ".", "w", "a", "v">>, kind |-> "file"],
      [name |-> <<"c", ".", "t", "x", "t">>, kind |-> "file"],
      [name |-> <<".", "w", "a", "v">>,      kind |-> "file"],
      [name |-> <<"d", ".", "w", "a", "v">>, kind |-> "dir"] }

\* all orders in which a directory listing can enumerate a set of entries
RECURSIVE Listings(_)
Listings(S) ==
    IF S = {} THEN { << >> }
    ELSE UNION { { <<e>> \o l : l \in Listings(S \ {e}) } : e \in S }

\* What the host offers for locating the compatibility shell
\*   root      : "unset" | "ok" | "stale"  (CYGWIN_ROOT, and whether
\*               <root>/bin/bash.exe exists)
\*   c64, c32  : C:/cygwin64/bin/bash.exe, C:/cygwin/bin/bash.exe exist
\*   whereRc   : exit status of `where bash.exe`
\*   whereOut  : the locations it printed, [path, exists]
NoShellEnv ==
    [root |-> "unset", c64 |-> FALSE, c32 |-> FALSE, whereRc |-> 1, whereOut |-> << >>]

RootBash == <<"R", "/", "b">>                       \* $CYGWIN_ROOT/bin/bash.exe
C64Bash  == <<"C", ":", "/", "c", "6", "4", "/", "b">>   \* C:/cygwin64/bin/bash.exe
C32Bash  == <<"C", ":", "/", "c", "/", "b">>             \* C:/cygwin/bin/bash.exe
SystemMarker == <<"s", "y", "s", "t", "e", "m", "3", "2">>
CygwinMarker == <<"c", "y", "g", "w", "i", "n">>

Sys32Bash == <<"C", ":", "\\", "S", "y", "s", "t", "e", "m", "3", "2", "\\", "b">>
CygBash   == <<"D", ":", "\\", "C", "y", "g", "w", "i", "n", "\\", "b">>

ShellEnvs ==
    { NoShellEnv,
      [NoShellEnv EXCEPT !.root = "ok"],
      [NoShellEnv EXCEPT !.whereRc = 0,
                         !.whereOut = << [path |-> Sys32Bash, exists |-> TRUE] >>],
      [NoShellEnv EXCEPT !.whereRc = 0,
                         !.whereOut = << [path |-> Sys32Bash, exists |-> TRUE],
                                         [path |-> CygBash, exists |-> TRUE] >>] }

VARIABLES
    platform,       \* sys.platform: "win32" or "posix"
    indirKind,      \* the input path: "missing" | "file" | "dir"
    indirList,      \* its entries in iterdir() order
    outKind,        \* the output path: "missing" | "file" | "dir"
    outInit,        \* the output path as the run found it
    toolsKind,      \* the tool path: "missing" | "nobin" | "ok"
    shellEnv,       \* see ShellEnvs
    disk,           \* names of the files present in the output directory
    pc,             \* position of the program
    infiles,        \* self.infiles (names)
    cygwin_bash,    \* self.cygwin_bash
    idx,            \* position of the for loop in self.infiles
    success_count,
    error_count,
    retries,        \* local of process_file
    exc,            \* the exception being propagated
    exitCode,       \* process exit status, -1 while running
    report,         \* the summary printed on stdout
    stderrLog,      \* diagnostics and warnings printed on stderr
    encRes,         \* per job: what the encoder invocation answered
    decRes,         \* per job: what the decoder invocation answered
    encCount,       \* per job: encoder invocations
    decCount,       \* per job: decoder invocations
    delCount,       \* per job: os.remove calls
    lockInit,       \* os.remove failures the OS has in store for this cleanup
    lockLeft,       \* ... of which still to come
    cwd,            \* the current directory, a resolved Windows path
    win_path,       \* argument of _windows_to_cygwin_path
    cyg_path,       \* its result
    cyg_back        \* the result of translating cyg_path once more

envVars  == <<platform, indirKind, indirList, outInit, toolsKind, shellEnv>>
progVars == <<infiles, cygwin_bash, idx, success_count, error_count, retries,
              exc, exitCode, report, stderrLog>>
pathVars == <<cwd, win_path, cyg_path, cyg_back>>
histVars == <<encRes, decRes, encCount, decCount, delCount, lockInit, lockLeft>>
vars == <<platform, indirKind, indirList, outKind, outInit, toolsKind, shellEnv, disk, pc,
          infiles, cygwin_bash, idx, success_count, error_count, retries, exc,
          exitCode, report, stderrLog, encRes, decRes, encCount, decCount,
          delCount, lockInit, lockLeft, cwd, win_path, cyg_path, cyg_back>>

NoExc == [type |-> "none", rc |-> 0, at |-> "none"]
NoRun == [kind |-> "none", rc |-> 0, via |-> "none"]
NoReport == [printed |-> FALSE, success |-> 0, errors |-> 0, total |-> 0]
NotFound == <<"?">>
NoPath == <<"-">>

\* the current directory of the batch runs: C:\w
HomeDir == [drive |-> <<"C", ":">>, root |-> TRUE, comps |-> << <<"w">> >>]

ExitCodes == {0, 2}      \* exit statuses the tool stubs produce

Init ==
    /\ platform \in {"posix", "win32"}
    /\ indirKind \in {"missing", "file", "dir"}
    /\ \E S \in SUBSET EntryUniverse :
          /\ Cardinality(S) <= MaxEntries
          /\ indirKind # "dir" => S = {}
          /\ indirList \in Listings(S)
    /\ outKind \in {"missing", "file", "dir"}
    /\ outInit = outKind
    /\ toolsKind \in {"missing", "nobin", "ok"}
    /\ shellEnv \in IF platform = "win32" THEN ShellEnvs ELSE {NoShellEnv}
    /\ disk = {}
    /\ pc = "init_infiles"
    /\ infiles = << >>
    /\ cygwin_bash = NotFound
    /\ idx = 0
    /\ success_count = 0
    /\ error_count = 0
    /\ retries = 0
    /\ exc = NoExc
    /\ exitCode = -1
    /\ report = NoReport
    /\ stderrLog = {}
    /\ encRes = << >>
    /\ decRes = << >>
    /\ encCount = << >>
    /\ decCount = << >>
    /\ delCount = << >>
    /\ lockInit = 0
    /\ lockLeft = 0
    /\ cwd = HomeDir
    /\ win_path = << >>
    /\ cyg_path = NoPath
    /\ cyg_back = NoPath

\* ------------------------------------------------------------ setup
\* the list comprehension of get_infiles without .lower()
WavFilter_CaseSensitive(listing) ==
    SelectSeq(listing, LAMBDA e : e.kind = "file" /\ Suffix(e.name) = DotWav)

\* the list comprehension of get_infiles
WavFilter(listing) ==
    SelectSeq(listing, LAMBDA e : e.kind = "file" /\ LowerStr(Suffix(e.name)) = DotWav)

EntryNames(listing) == [i \in 1..Len(listing) |-> listing[i].name]

\* a sequence back to front
Reversed(q) == [i \in 1..Len(q) |-> q[Len(q) + 1 - i]]

\* get_infiles returning the files in the reverse of the listing order
GetInfiles_Reversed ==
    /\ pc = "init_infiles"
    /\ IF indirKind # "dir"
       THEN /\ exc' = [type |-> "ValueError", rc |-> 0, at |-> "setup"]
            /\ pc' = "raised"
            /\ UNCHANGED <<infiles, encRes, decRes, encCount, decCount, delCount>>
       ELSE LET found == Reversed(EntryNames(WavFilter(indirList)))
            IN IF found = << >>
               THEN /\ exc' = [type |-> "ValueError", rc |-> 0, at |-> "setup"]
                    /\ pc' = "raised"
                    /\ UNCHANGED <<infiles, encRes, decRes, encCount, decCount, delCount>>
               ELSE /\ infiles' = found
                    /\ encRes' = [i \in 1..Len(found) |-> NoRun]
                    /\ decRes' = [i \in 1..Len(found) |-> NoRun]
                    /\ encCount' = [i \in 1..Len(found) |-> 0]
                    /\ decCount' = [i \in 1..Len(found) |-> 0]
                    /\ delCount' = [i \in 1..Len(found) |-> 0]
                    /\ pc' = "init_outpath"
                    /\ UNCHANGED exc
    /\ UNCHANGED <<envVars, pathVars, outKind, disk, cygwin_bash, idx, success_count,
                   error_count, retries, exitCode, report, stderrLog,
                   lockInit, lockLeft>>

\* get_infiles run after the output directory has been created
GetInfiles_OutdirFirst ==
    /\ pc = "init_infiles"
    /\ IF indirKind # "dir"
       THEN /\ exc' = [type |-> "ValueError", rc |-> 0, at |-> "setup"]
            /\ pc' = "raised"
            /\ UNCHANGED <<infiles, encRes, decRes, encCount, decCount, delCount>>
       ELSE LET found == EntryNames(WavFilter(indirList))
            IN IF found = << >>
               THEN /\ exc' = [type |-> "ValueError", rc |-> 0, at |-> "setup"]
                    /\ pc' = "raised"
                    /\ UNCHANGED <<infiles, encRes, decRes, encCount, decCount, delCount>>
               ELSE /\ infiles' = found
                    /\ encRes' = [i \in 1..Len(found) |-> NoRun]
                    /\ decRes' = [i \in 1..Len(found) |-> NoRun]
                    /\ encCount' = [i \in 1..Len(found) |-> 0]
                    /\ decCount' = [i \in 1..Len(found) |-> 0]
                    /\ delCount' = [i \in 1..Len(found) |-> 0]
                    /\ pc' = "init_outpath"
                    /\ UNCHANGED exc
    /\ outKind' = IF outKind = "missing" THEN "dir" ELSE outKind
    /\ UNCHANGED <<envVars, pathVars, disk, cygwin_bash, idx, success_count,
                   error_count, retries, exitCode, report, stderrLog,
                   lockInit, lockLeft>>

\* get_infiles, called from __init__ inside the try of __main__
GetInfiles ==
    /\ pc = "init_infiles"
    /\ IF indirKind # "dir"
       THEN /\ exc' = [type |-> "ValueError", rc |-> 0, at |-> "setup"]
            /\ pc' = "raised"
            /\ UNCHANGED <<infiles, encRes, decRes, encCount, decCount, delCount>>
       ELSE LET found == EntryNames(WavFilter(indirList))
            IN IF found = << >>
               THEN /\ exc' = [type |-> "ValueError", rc |-> 0, at |-> "setup"]
                    /\ pc' = "raised"
                    /\ UNCHANGED <<infiles, encRes, decRes, encCount, decCount, delCount>>
               ELSE /\ infiles' = found
                    /\ encRes' = [i \in 1..Len(found) |-> NoRun]
                    /\ decRes' = [i \in 1..Len(found) |-> NoRun]
                    /\ encCount' = [i \in 1..Len(found) |-> 0]
                    /\ decCount' = [i \in 1..Len(found) |-> 0]
                    /\ delCount' = [i \in 1..Len(found) |-> 0]
                    /\ pc' = "init_outpath"
                    /\ UNCHANGED exc
    /\ UNCHANGED <<envVars, pathVars, outKind, disk, cygwin_bash, idx, success_count,
                   error_count, retries, exitCode, report, stderrLog,
                   lockInit, lockLeft>>

\* get_outpath
GetOutpath ==
    /\ pc = "init_outpath"
    /\ outKind' = IF outKind = "missing" THEN "dir" ELSE outKind
    /\ IF outKind' # "dir"
       THEN /\ exc' = [type |-> "ValueError", rc |-> 0, at |-> "setup"]
            /\ pc' = "raised"
       ELSE /\ pc' = "init_bin"
            /\ UNCHANGED exc
    /\ UNCHANGED <<envVars, pathVars, disk, infiles, cygwin_bash, idx, success_count,
                   error_count, retries, exitCode, report, stderrLog, histVars>>

\* get_brrtools_bin without the test of the bin subdirectory
GetBrrtoolsBin_NoBinCheck ==
    /\ pc = "init_bin"
    /\ IF toolsKind = "missing"
       THEN /\ exc' = [type |-> "ValueError", rc |-> 0, at |-> "setup"]
            /\ pc' = "raised"
       ELSE /\ pc' = "init_bash"
            /\ UNCHANGED exc
    /\ UNCHANGED <<envVars, pathVars, outKind, disk, infiles, cygwin_bash, idx, success_count,
                   error_count, retries, exitCode, report, stderrLog, histVars>>

\* get_brrtools_bin
GetBrrtoolsBin ==
    /\ pc = "init_bin"
    /\ IF toolsKind # "ok"
       THEN /\ exc' = [type |-> "ValueError", rc |-> 0, at |-> "setup"]
            /\ pc' = "raised"
       ELSE /\ pc' = "init_bash"
            /\ UNCHANGED exc
    /\ UNCHANGED <<envVars, pathVars, outKind, disk, infiles, cygwin_bash, idx, success_count,
                   error_count, retries, exitCode, report, stderrLog, histVars>>

\* the candidates with the CYGWIN_ROOT one appended instead of inserted first
PossiblePaths_RootLast(env) ==
    << [path |-> C64Bash, exists |-> env.c64], [path |-> C32Bash, exists |-> env.c32] >>
    \o (IF env.root # "unset" THEN << [path |-> RootBash, exists |-> env.root = "ok"] >>
                              ELSE << >>)

\* the candidates tried before the system-wide search, in order
PossiblePaths(env) ==
    (IF env.root # "unset" THEN << [path |-> RootBash, exists |-> env.root = "ok"] >>
                           ELSE << >>)
    \o << [path |-> C64Bash, exists |-> env.c64], [path |-> C32Bash, exists |-> env.c32] >>

\* the loop over the output of `where bash.exe`
RECURSIVE WhereScan(_)
WhereScan(locs) ==
    IF locs = << >> THEN NotFound
    ELSE LET loc == Head(locs)
         IN IF Contains(LowerStr(loc.path), SystemMarker) THEN WhereScan(Tail(locs))
            ELSE IF Contains(LowerStr(loc.path), CygwinMarker) /\ loc.exists
                 THEN loc.path
                 ELSE WhereScan(Tail(locs))

\* _find_cygwin_bash: the path returned, NotFound when it raises
FindCygwinBash(env) ==
    LET pp == PossiblePaths(env)
        hits == SelectSeq(pp, LAMBDA c : c.exists)
    IN IF hits # << >> THEN Head(hits).path
       ELSE IF env.whereRc = 0 THEN WhereScan(env.whereOut)
       ELSE NotFound

\* __init__, the sys.platform test that ends it
InitPlatform ==
    /\ pc = "init_bash"
    /\ IF platform = "win32"
       THEN LET found == FindCygwinBash(shellEnv)
            IN IF found = NotFound
               THEN /\ exc' = [type |-> "FileNotFoundError", rc |-> 0, at |-> "setup"]
                    /\ pc' = "raised"
                    /\ UNCHANGED cygwin_bash
               ELSE /\ cygwin_bash' = found
                    /\ pc' = "batch_start"
                    /\ UNCHANGED exc
       ELSE /\ pc' = "batch_start"
            /\ UNCHANGED <<exc, cygwin_bash>>
    /\ UNCHANGED <<envVars, pathVars, outKind, disk, infiles, idx, success_count,
                   error_count, retries, exitCode, report, stderrLog, histVars>>

\* ------------------------------------------------------------ the batch
\* process_batch, its two counters
ProcessBatchStart ==
    /\ pc = "batch_start"
    /\ success_count' = 0
    /\ error_count' = 0
    /\ pc' = "loop"
    /\ UNCHANGED <<envVars, pathVars, outKind, disk, infiles, cygwin_bash, idx, retries, exc,
                   exitCode, report, stderrLog, histVars>>

\* the for statement starting the batch over when the list is exhausted
ForNext_Restart ==
    /\ pc = "loop"
    /\ IF idx < Len(infiles)
       THEN /\ idx' = idx + 1
            /\ pc' = "encode"
       ELSE /\ idx' = 0
            /\ pc' = "loop"
    /\ UNCHANGED <<envVars, pathVars, outKind, disk, infiles, cygwin_bash, success_count,
                   error_count, retries, exc, exitCode, report, stderrLog, histVars>>

\* the for statement: the next infile, or the end of the loop
ForNext ==
    /\ pc = "loop"
    /\ IF idx < Len(infiles)
       THEN /\ idx' = idx + 1
            /\ pc' = "encode"
       ELSE /\ pc' = "summary"
            /\ UNCHANGED idx
    /\ UNCHANGED <<envVars, pathVars, outKind, disk, infiles, cygwin_bash, success_count,
                   error_count, retries, exc, exitCode, report, stderrLog, histVars>>

\* process_file: tmp_brr and out_wav, as names inside self.outpath
TmpBrr(infile) == Stem(infile) \o DotBrr
OutWav(infile) == infile

\* what one subprocess.run(..., check=True) can answer: the tool ran and
\* exited with a status, or it could not be started
ToolAnswers ==
    { [kind |-> "exit", rc |-> r] : r \in ExitCodes } \cup { [kind |-> "oserror", rc |-> 0] }

\* subprocess.run with check=False: the exit status is ignored
AfterRun_NoCheck(ans, next) ==
    IF ans.kind = "exit"
    THEN /\ pc' = next
         /\ UNCHANGED exc
    ELSE /\ pc' = "raised"
         /\ exc' = [type |-> "OSError", rc |-> 0, at |-> "item"]

\* subprocess.run(check=True): returns on status 0, otherwise raises
AfterRun(ans, next) ==
    IF ans.kind = "exit" /\ ans.rc = 0
    THEN /\ pc' = next
         /\ UNCHANGED exc
    ELSE /\ pc' = "raised"
         /\ exc' = IF ans.kind = "exit"
                   THEN [type |-> "CalledProcessError", rc |-> ans.rc, at |-> "item"]
                   ELSE [type |-> "OSError", rc |-> 0, at |-> "item"]

\* the encoder invocation of the current job, through strategy via
RunEncoder(via) ==
    \E ans \in ToolAnswers, wrote \in BOOLEAN :
        /\ ans.kind = "oserror" => ~wrote
        /\ encCount' = [encCount EXCEPT ![idx] = @ + 1]
        /\ encRes' = [encRes EXCEPT ![idx] = [kind |-> ans.kind, rc |-> ans.rc, via |-> via]]
        /\ disk' = IF wrote THEN disk \cup {TmpBrr(infiles[idx])} ELSE disk
        /\ AfterRun(ans, "decode")

\* the decoder invocation of the current job, through strategy via; a
\* decoder that exits 0 has produced its output file
RunDecoder(via) ==
    \E ans \in ToolAnswers, wrote \in BOOLEAN :
        /\ ans.kind = "oserror" => ~wrote
        /\ (ans.kind = "exit" /\ ans.rc = 0) => wrote
        /\ decCount' = [decCount EXCEPT ![idx] = @ + 1]
        /\ decRes' = [decRes EXCEPT ![idx] = [kind |-> ans.kind, rc |-> ans.rc, via |-> via]]
        /\ disk' = IF wrote THEN disk \cup {OutWav(infiles[idx])} ELSE disk
        /\ AfterRun(ans, "cleanup")

\* process_file, win32 branch: the encoder through the Cygwin bash
EncodeShell ==
    /\ pc = "encode"
    /\ platform = "win32"
    /\ RunEncoder("shell")
    /\ UNCHANGED <<envVars, pathVars, outKind, infiles, cygwin_bash, idx, success_count,
                   error_count, retries, exitCode, report, stderrLog,
                   decRes, decCount, delCount, lockInit, lockLeft>>

\* process_file, win32 branch: the decoder through the Cygwin bash
DecodeShell ==
    /\ pc = "decode"
    /\ platform = "win32"
    /\ RunDecoder("shell")
    /\ UNCHANGED <<envVars, pathVars, outKind, infiles, cygwin_bash, idx, success_count,
                   error_count, retries, exitCode, report, stderrLog,
                   encRes, encCount, delCount, lockInit, lockLeft>>

\* process_file, else branch: the native encoder
EncodeNative ==
    /\ pc = "encode"
    /\ platform # "win32"
    /\ RunEncoder("native")
    /\ UNCHANGED <<envVars, pathVars, outKind, infiles, cygwin_bash, idx, success_count,
                   error_count, retries, exitCode, report, stderrLog,
                   decRes, decCount, delCount, lockInit, lockLeft>>

\* process_file, else branch: the native decoder
DecodeNative ==
    /\ pc = "decode"
    /\ platform # "win32"
    /\ RunDecoder("native")
    /\ UNCHANGED <<envVars, pathVars, outKind, infiles, cygwin_bash, idx, success_count,
                   error_count, retries, exitCode, report, stderrLog,
                   encRes, encCount, delCount, lockInit, lockLeft>>

\* process_file without the deletion block
CleanupCheck_Skip ==
    /\ pc = "cleanup"
    /\ pc' = "pf_end"
    /\ UNCHANGED <<envVars, pathVars, outKind, disk, infiles, cygwin_bash, idx, success_count,
                   error_count, retries, exc, exitCode, report, stderrLog, histVars>>

\* process_file: if tmp_brr.exists(): retries = 0.  The OS decides here how
\* many of the coming os.remove calls it rejects (a transient lock).
CleanupCheck ==
    /\ pc = "cleanup"
    /\ IF TmpBrr(infiles[idx]) \in disk
       THEN /\ retries' = 0
            /\ pc' = "remove"
            /\ \E n \in 0..MaxLock : lockInit' = n /\ lockLeft' = n
       ELSE /\ pc' = "pf_end"
            /\ UNCHANGED <<retries, lockInit, lockLeft>>
    /\ UNCHANGED <<envVars, pathVars, outKind, disk, infiles, cygwin_bash, idx, success_count,
                   error_count, exc, exitCode, report, stderrLog,
                   encRes, decRes, encCount, decCount, delCount>>

\* the while loop raising the last deletion error instead of warning
RemoveAttempt_Raise ==
    /\ pc = "remove"
    /\ IF retries < MaxRetries
       THEN /\ retries' = retries + 1
            /\ delCount' = [delCount EXCEPT ![idx] = @ + 1]
            /\ IF lockLeft = 0
               THEN /\ disk' = disk \ {TmpBrr(infiles[idx])}
                    /\ pc' = "pf_end"
                    /\ UNCHANGED <<lockLeft, stderrLog, exc>>
               ELSE /\ lockLeft' = lockLeft - 1
                    /\ UNCHANGED disk
                    /\ IF retries' < MaxRetries
                       THEN /\ pc' = "remove"
                            /\ UNCHANGED <<stderrLog, exc>>
                       ELSE /\ exc' = [type |-> "OSError", rc |-> 0, at |-> "item"]
                            /\ pc' = "raised"
                            /\ UNCHANGED stderrLog
       ELSE /\ pc' = "pf_end"
            /\ UNCHANGED <<retries, delCount, disk, lockLeft, stderrLog, exc>>
    /\ UNCHANGED <<envVars, pathVars, outKind, infiles, cygwin_bash, idx, success_count,
                   error_count, exitCode, report,
                   encRes, decRes, encCount, decCount, lockInit>>

\* the while loop with its bound off by one: while retries <= 6
RemoveAttempt_OffByOne ==
    /\ pc = "remove"
    /\ IF retries <= MaxRetries
       THEN /\ retries' = retries + 1
            /\ delCount' = [delCount EXCEPT ![idx] = @ + 1]
            /\ IF lockLeft = 0
               THEN /\ disk' = disk \ {TmpBrr(infiles[idx])}
                    /\ pc' = "pf_end"
                    /\ UNCHANGED <<lockLeft, stderrLog>>
               ELSE /\ lockLeft' = lockLeft - 1
                    /\ UNCHANGED disk
                    /\ IF retries' <= MaxRetries
                       THEN /\ pc' = "remove"
                            /\ UNCHANGED stderrLog
                       ELSE /\ stderrLog' = stderrLog \cup
                                 {[kind |-> "warning", job |-> idx, rc |-> 0]}
                            /\ pc' = "pf_end"
       ELSE /\ pc' = "pf_end"
            /\ UNCHANGED <<retries, delCount, disk, lockLeft, stderrLog>>
    /\ UNCHANGED <<envVars, pathVars, outKind, infiles, cygwin_bash, idx, success_count,
                   error_count, exc, exitCode, report,
                   encRes, decRes, encCount, decCount, lockInit>>

\* process_file: one iteration of the while loop around os.remove
RemoveAttempt ==
    /\ pc = "remove"
    /\ IF retries < MaxRetries
       THEN /\ retries' = retries + 1
            /\ delCount' = [delCount EXCEPT ![idx] = @ + 1]
            /\ IF lockLeft = 0
               THEN \* os.remove succeeded: break
                    /\ disk' = disk \ {TmpBrr(infiles[idx])}
                    /\ pc' = "pf_end"
                    /\ UNCHANGED <<lockLeft, stderrLog>>
               ELSE \* os.remove raised
                    /\ lockLeft' = lockLeft - 1
                    /\ UNCHANGED disk
                    /\ IF retries' < MaxRetries
                       THEN /\ pc' = "remove"
                            /\ UNCHANGED stderrLog
                       ELSE /\ stderrLog' = stderrLog \cup
                                 {[kind |-> "warning", job |-> idx, rc |-> 0]}
                            /\ pc' = "pf_end"
       ELSE /\ pc' = "pf_end"
            /\ UNCHANGED <<retries, delCount, disk, lockLeft, stderrLog>>
    /\ UNCHANGED <<envVars, pathVars, outKind, infiles, cygwin_bash, idx, success_count,
                   error_count, exc, exitCode, report,
                   encRes, decRes, encCount, decCount, lockInit>>

\* process_batch: process_file returned, success_count += 1
ProcessFileReturn ==
    /\ pc = "pf_end"
    /\ success_count' = success_count + 1
    /\ retries' = 0
    /\ lockInit' = 0
    /\ lockLeft' = 0
    /\ pc' = "loop"
    /\ UNCHANGED <<envVars, pathVars, outKind, disk, infiles, cygwin_bash, idx, error_count,
                   exc, exitCode, report, stderrLog,
                   encRes, decRes, encCount, decCount, delCount>>

\* ExceptCalledProcessError with success_count += 1 also run on the error path
ExceptCalledProcessError_BothCount ==
    /\ pc = "raised"
    /\ exc.at = "item"
    /\ exc.type = "CalledProcessError"
    /\ error_count' = error_count + 1
    /\ success_count' = success_count + 1
    /\ stderrLog' = stderrLog \cup {[kind |-> "tool", job |-> idx, rc |-> exc.rc]}
    /\ exc' = NoExc
    /\ pc' = "loop"
    /\ UNCHANGED <<envVars, pathVars, outKind, disk, infiles, cygwin_bash, idx,
                   retries, exitCode, report, histVars>>

\* ExceptCalledProcessError running the same item again instead of continuing
ExceptCalledProcessError_Retry ==
    /\ pc = "raised"
    /\ exc.at = "item"
    /\ exc.type = "CalledProcessError"
    /\ error_count' = error_count + 1
    /\ stderrLog' = stderrLog \cup {[kind |-> "tool", job |-> idx, rc |-> exc.rc]}
    /\ exc' = NoExc
    /\ pc' = "encode"
    /\ UNCHANGED <<envVars, pathVars, outKind, disk, infiles, cygwin_bash, idx, success_count,
                   retries, exitCode, report, histVars>>

\* ExceptCalledProcessError deleting the temp file of the failed item
ExceptCalledProcessError_Cleanup ==
    /\ pc = "raised"
    /\ exc.at = "item"
    /\ exc.type = "CalledProcessError"
    /\ error_count' = error_count + 1
    /\ stderrLog' = stderrLog \cup {[kind |-> "tool", job |-> idx, rc |-> exc.rc]}
    /\ IF TmpBrr(infiles[idx]) \in disk
       THEN /\ disk' = disk \ {TmpBrr(infiles[idx])}
            /\ delCount' = [delCount EXCEPT ![idx] = @ + 1]
       ELSE UNCHANGED <<disk, delCount>>
    /\ exc' = NoExc
    /\ pc' = "loop"
    /\ UNCHANGED <<envVars, pathVars, outKind, infiles, cygwin_bash, idx, success_count,
                   retries, exitCode, report, encRes, decRes, encCount, decCount,
                   lockInit, lockLeft>>

\* process_batch: except subprocess.CalledProcessError
ExceptCalledProcessError ==
    /\ pc = "raised"
    /\ exc.at = "item"
    /\ exc.type = "CalledProcessError"
    /\ error_count' = error_count + 1
    /\ stderrLog' = stderrLog \cup {[kind |-> "tool", job |-> idx, rc |-> exc.rc]}
    /\ exc' = NoExc
    /\ pc' = "loop"
    /\ UNCHANGED <<envVars, pathVars, outKind, disk, infiles, cygwin_bash, idx, success_count,
                   retries, exitCode, report, histVars>>

\* ExceptException with the error_count increment left out
ExceptException_NoCount ==
    /\ pc = "raised"
    /\ exc.at = "item"
    /\ exc.type # "CalledProcessError"
    /\ stderrLog' = stderrLog \cup {[kind |-> "unexpected", job |-> idx, rc |-> 0]}
    /\ exc' = NoExc
    /\ pc' = "loop"
    /\ UNCHANGED <<envVars, pathVars, outKind, disk, infiles, cygwin_bash, idx, success_count,
                   error_count, retries, exitCode, report, histVars>>

\* ExceptException letting the exception go on to the caller
ExceptException_Reraise ==
    /\ pc = "raised"
    /\ exc.at = "item"
    /\ exc.type # "CalledProcessError"
    /\ error_count' = error_count + 1
    /\ stderrLog' = stderrLog \cup {[kind |-> "unexpected", job |-> idx, rc |-> 0]}
    /\ exc' = [exc EXCEPT !.at = "setup"]
    /\ pc' = "raised"
    /\ UNCHANGED <<envVars, pathVars, outKind, disk, infiles, cygwin_bash, idx, success_count,
                   retries, exitCode, report, histVars>>

\* process_batch: except Exception
ExceptException ==
    /\ pc = "raised"
    /\ exc.at = "item"
    /\ exc.type # "CalledProcessError"
    /\ error_count' = error_count + 1
    /\ stderrLog' = stderrLog \cup {[kind |-> "unexpected", job |-> idx, rc |-> 0]}
    /\ exc' = NoExc
    /\ pc' = "loop"
    /\ UNCHANGED <<envVars, pathVars, outKind, disk, infiles, cygwin_bash, idx, success_count,
                   retries, exitCode, report, histVars>>

\* process_batch: the summary printed after the loop
PrintSummary ==
    /\ pc = "summary"
    /\ report' = [printed |-> TRUE, success |-> success_count,
                  errors |-> error_count, total |-> Len(infiles)]
    /\ pc' = "batch_done"
    /\ UNCHANGED <<envVars, pathVars, outKind, disk, infiles, cygwin_bash, idx, success_count,
                   error_count, retries, exc, exitCode, stderrLog, histVars>>

\* __main__: print("DONE"), the interpreter then exits with status 0
MainDone ==
    /\ pc = "batch_done"
    /\ exitCode' = 0
    /\ pc' = "exited"
    /\ UNCHANGED <<envVars, pathVars, outKind, disk, infiles, cygwin_bash, idx, success_count,
                   error_count, retries, exc, report, stderrLog, histVars>>

\* __main__: except Exception, sys.exit(1)
MainExcept ==
    /\ pc = "raised"
    /\ exc.at = "setup"
    /\ exitCode' = 1
    /\ stderrLog' = stderrLog \cup {[kind |-> "fatal", job |-> 0, rc |-> 0]}
    /\ pc' = "exited"
    /\ UNCHANGED <<envVars, pathVars, outKind, disk, infiles, cygwin_bash, idx, success_count,
                   error_count, retries, exc, report, histVars>>

Next ==
    \/ GetInfiles
    \/ GetOutpath
    \/ GetBrrtoolsBin
    \/ InitPlatform
    \/ ProcessBatchStart
    \/ ForNext
    \/ EncodeShell
    \/ DecodeShell
    \/ EncodeNative
    \/ DecodeNative
    \/ CleanupCheck
    \/ RemoveAttempt
    \/ ProcessFileReturn
    \/ ExceptCalledProcessError
    \/ ExceptException
    \/ PrintSummary
    \/ MainDone
    \/ MainExcept

Spec == Init /\ [][Next]_vars

TypeOK ==
    /\ pc \in {"init_infiles", "init_outpath", "init_bin", "init_bash", "batch_start",
               "loop", "encode", "decode", "cleanup", "remove", "pf_end", "raised",
               "summary", "batch_done", "exited"}
    /\ idx \in 0..Len(infiles)
    /\ retries \in 0..MaxRetries
    /\ exitCode \in {-1, 0, 1}

\* ------------------------------------------------------------ path translation
\* Windows paths are strings; pathlib parses them into drive, root and
\* components, both / and \ being separators.
IsSep(c) == c \in {"/", "\\"}

IsLetter(c) ==
    \/ \E i \in 1..26 : UpperChars[i] = c
    \/ \E i \in 1..26 : LowerChars[i] = c

\* s cut at its separators; empty pieces are dropped
RECURSIVE Split(_, _, _)
Split(s, cur, acc) ==
    IF s = << >> THEN (IF cur = << >> THEN acc ELSE Append(acc, cur))
    ELSE IF IsSep(Head(s))
         THEN Split(Tail(s), << >>, IF cur = << >> THEN acc ELSE Append(acc, cur))
         ELSE Split(Tail(s), Append(cur, Head(s)), acc)

\* the components of a path string: pathlib also drops "." components
Comps(s) == SelectSeq(Split(s, << >>, << >>), LAMBDA c : c # <<".">>)

RECURSIVE Join(_, _)
Join(comps, sep) ==
    IF comps = << >> THEN << >>
    ELSE IF Len(comps) = 1 THEN Head(comps)
    ELSE Head(comps) \o <<sep>> \o Join(Tail(comps), sep)

\* Path(win_path) on win32: \\server\share\..., X:..., or no drive
ParseWin(s) ==
    LET pieces == Split(s, << >>, << >>)
    IN IF Len(s) >= 3 /\ IsSep(s[1]) /\ IsSep(s[2]) /\ ~IsSep(s[3]) /\ Len(pieces) >= 2
       THEN [drive |-> <<"\\", "\\">> \o pieces[1] \o <<"\\">> \o pieces[2],
             root  |-> TRUE,
             comps |-> SelectSeq(SubSeq(pieces, 3, Len(pieces)), LAMBDA c : c # <<".">>)]
       ELSE IF Len(s) >= 2 /\ s[2] = ":" /\ IsLetter(s[1])
       THEN [drive |-> SubSeq(s, 1, 2),
             root  |-> Len(s) >= 3 /\ IsSep(s[3]),
             comps |-> Comps(SubSeq(s, 3, Len(s)))]
       ELSE [drive |-> << >>,
             root  |-> Len(s) >= 1 /\ IsSep(s[1]),
             comps |-> Comps(s)]

\* ".." components cancelled against their parent; at the root they vanish
RECURSIVE Collapse(_, _)
Collapse(cs, acc) ==
    IF cs = << >> THEN acc
    ELSE IF Head(cs) = <<".", ".">>
         THEN Collapse(Tail(cs), IF acc = << >> THEN acc ELSE SubSeq(acc, 1, Len(acc) - 1))
         ELSE Collapse(Tail(cs), Append(acc, Head(cs)))

\* Path.resolve() on win32 (no symbolic links): the path made absolute
\* against the current directory, then normalised
Resolve(path, dir) ==
    LET sameDrive == path.drive = << >> \/ LowerStr(path.drive) = LowerStr(dir.drive)
        base == IF ~path.root /\ sameDrive THEN dir.comps ELSE << >>
    IN [drive |-> IF path.drive = << >> THEN dir.drive ELSE path.drive,
        root  |-> TRUE,
        comps |-> Collapse(base \o path.comps, << >>)]

\* path.parts[0]: drive and root together
Anchor(path) == path.drive \o (IF path.root THEN <<"\\">> ELSE << >>)

\* str(path) of a WindowsPath
StrPath(path) == Anchor(path) \o Join(path.comps, "\\")

\* str.replace('\\', '/')
ReplaceBackslash(s) == [i \in 1..Len(s) |-> IF s[i] = "\\" THEN "/" ELSE s[i]]

CygdrivePrefix == <<"/", "c", "y", "g", "d", "r", "i", "v", "e", "/">>

\* _windows_to_cygwin_path without the lower() of the drive letter
windows_to_cygwin_path_NoLower(s, dir) ==
    LET path == Resolve(ParseWin(s), dir)
        first == Anchor(path)
    IN IF Len(first) = 3 /\ first[2] = ":"
       THEN CygdrivePrefix \o <<first[1]>> \o <<"/">> \o Join(path.comps, "/")
       ELSE ReplaceBackslash(StrPath(path))

\* _windows_to_cygwin_path
windows_to_cygwin_path(s, dir) ==
    LET path == Resolve(ParseWin(s), dir)
        first == Anchor(path)
    IN IF Len(first) = 3 /\ first[2] = ":"
       THEN CygdrivePrefix \o <<Lower(first[1])>> \o <<"/">> \o Join(path.comps, "/")
       ELSE ReplaceBackslash(StrPath(path))

\* the arguments tried: a prefix, then up to MaxComps components joined by
\* one of the two separators
PathPrefixes ==
    { <<"C", ":", "\\">>, <<"c", ":", "/">>, <<"D", ":", "\\">>,
      << >>, <<"\\">>, <<"\\", "\\", "s", "\\", "h", "\\">>,
      CygdrivePrefix \o <<"c", "/">> }

CompUniverse == { <<"a">>, <<"B">>, <<".", ".">> }

CompSeqs == UNION { [1..n -> CompUniverse] : n \in 0..MaxComps }

PathInputs ==
    { pre \o Join(cs, sep) : pre \in PathPrefixes, cs \in CompSeqs, sep \in {"\\", "/"} }

Cwds == { HomeDir, [drive |-> <<"D", ":">>, root |-> TRUE, comps |-> << >>] }

\* the state of a process that is about to translate one path
InitPath ==
    /\ platform = "win32"
    /\ indirKind = "dir"
    /\ indirList = << >>
    /\ outKind = "dir"
    /\ outInit = "dir"
    /\ toolsKind = "ok"
    /\ shellEnv = NoShellEnv
    /\ disk = {}
    /\ pc = "translate"
    /\ infiles = << >>
    /\ cygwin_bash = NotFound
    /\ idx = 0
    /\ success_count = 0
    /\ error_count = 0
    /\ retries = 0
    /\ exc = NoExc
    /\ exitCode = -1
    /\ report = NoReport
    /\ stderrLog = {}
    /\ encRes = << >>
    /\ decRes = << >>
    /\ encCount = << >>
    /\ decCount = << >>
    /\ delCount = << >>
    /\ lockInit = 0
    /\ lockLeft = 0
    /\ cwd \in Cwds
    /\ win_path \in PathInputs
    /\ cyg_path = NoPath
    /\ cyg_back = NoPath

\* one call of _windows_to_cygwin_path
Translate ==
    /\ pc = "translate"
    /\ cyg_path' = windows_to_cygwin_path(win_path, cwd)
    /\ pc' = "translated"
    /\ UNCHANGED <<envVars, outKind, disk, progVars, histVars, cwd, win_path, cyg_back>>

\* a second call, on the result of the first
TranslateAgain ==
    /\ pc = "translated"
    /\ cyg_back' = windows_to_cygwin_path(cyg_path, cwd)
    /\ pc' = "translated_twice"
    /\ UNCHANGED <<envVars, outKind, disk, progVars, histVars, cwd, win_path, cyg_path>>

NextPath ==
    \/ Translate
    \/ TranslateAgain

SpecPath == InitPath /\ [][NextPath]_vars

\* ------------------------------------------------------------ vocabulary
Jobs == 1..Len(infiles)

\* the loop iteration of job i is over (between items, or after the loop)
JobFinished(i) ==
    \/ i < idx
    \/ i = idx /\ pc \in {"loop", "summary", "batch_done", "exited"}

FinishedJobs == { i \in Jobs : JobFinished(i) }

ToolOk(res) == res.kind = "exit" /\ res.rc = 0
ToolFailed(res) == res.kind = "oserror" \/ (res.kind = "exit" /\ res.rc # 0)

\* the jobs in whose processing a tool stage failed
FailedItems == { i \in Jobs : ToolFailed(encRes[i]) \/ ToolFailed(decRes[i]) }

\* the jobs whose encoder and decoder both exited 0
BothOk(i) == ToolOk(encRes[i]) /\ ToolOk(decRes[i])

\* the .wav files of the input directory, by position in its listing
Discovered ==
    { k \in 1..Len(indirList) :
        /\ indirList[k].kind = "file"
        /\ LowerStr(Suffix(indirList[k].name)) = DotWav }

Warned(i) == [kind |-> "warning", job |-> i, rc |-> 0] \in stderrLog
Diagnosed(i) == \E d \in stderrLog : d.job = i /\ d.kind \in {"tool", "unexpected"}

\* no location printed by `where bash.exe` is an existing Cygwin bash
\* outside system32
NoWhereCandidate ==
    \/ shellEnv.whereRc # 0
    \/ \A k \in 1..Len(shellEnv.whereOut) :
          LET loc == shellEnv.whereOut[k]
          IN \/ ~loc.exists
             \/ ~Contains(LowerStr(loc.path), CygwinMarker)
             \/ Contains(LowerStr(loc.path), SystemMarker)

\* the fatal setup errors, read off the environment
SetupError ==
    \/ indirKind # "dir"
    \/ Discovered = {}
    \/ outKind = "file"
    \/ toolsKind # "ok"
    \/ /\ platform = "win32"
       /\ shellEnv.root # "ok" /\ ~shellEnv.c64 /\ ~shellEnv.c32
       /\ NoWhereCandidate

\* ------------------------------------------------------------ claims

\* C1: when the batch has completed, every one of the N discovered files was
\* attempted, and the summary reports succeeded = N - K, failed = K and
\* total = N, K being the number of items in whose processing a stage failed.
C1_BatchCounts ==
    report.printed =>
        /\ \A i \in Jobs : encCount[i] = 1 /\ JobFinished(i)
        /\ report.total = Cardinality(Discovered)
        /\ report.errors = Cardinality(FailedItems)
        /\ report.success = Cardinality(Discovered) - Cardinality(FailedItems)

C1_Witness ==
    /\ pc = "exited"
    /\ report.printed
    /\ Cardinality(Discovered) = 2
    /\ Cardinality(FailedItems) = 1
    /\ report.success = 1

\* C2: at every point of the run succeeded + failed is the number of jobs
\* whose processing has finished, and a step that finishes a job adds one to
\* exactly one of the two counters while no other step changes them.
C2_CountersInv == success_count + error_count = Cardinality(FinishedJobs)

C2_CountersStep ==
    /\ success_count' >= success_count
    /\ error_count' >= error_count
    /\ (success_count' + error_count') - (success_count + error_count)
          = Cardinality(FinishedJobs') - Cardinality(FinishedJobs)
    /\ Cardinality(FinishedJobs') - Cardinality(FinishedJobs) \in {0, 1}

C2_Counters == [](C2_CountersInv) /\ [][C2_CountersStep]_vars

C2_Witness ==
    /\ pc = "decode"
    /\ idx = 2
    /\ success_count = 0
    /\ error_count = 1

\* C3: under a fatal setup error no encoder or decoder is ever invoked, no
\* deletion is attempted, the batch loop is never entered, and the process
\* exits with status 1.
C3_FatalSetup ==
    SetupError =>
        /\ \A i \in DOMAIN encCount : encCount[i] = 0 /\ decCount[i] = 0 /\ delCount[i] = 0
        /\ disk = {}
        /\ idx = 0
        /\ ~report.printed
        /\ pc \in {"init_infiles", "init_outpath", "init_bin", "init_bash", "raised", "exited"}
        /\ pc = "exited" => exitCode = 1

C3_Witness ==
    /\ pc = "exited"
    /\ exitCode = 1
    /\ infiles # << >>
    /\ platform = "win32"
    /\ toolsKind = "ok"
    /\ outKind = "dir"
    /\ exc.type = "FileNotFoundError"

\* C4: once setup has succeeded the process exits with status 0 after the
\* summary, whatever the number of failed items, and the top-level handler
\* is never reached from an item.
C4_ExitZero ==
    ~SetupError =>
        /\ pc = "exited" => (exitCode = 0 /\ report.printed)
        /\ pc = "raised" => exc.at = "item"

C4_Witness ==
    /\ pc = "exited"
    /\ exitCode = 0
    /\ Len(infiles) = 2
    /\ FailedItems = {1, 2}
    /\ \E d \in stderrLog : d.kind = "unexpected"

\* C5: a job's decoder is invoked only after its encoder exited 0; after an
\* encoder that exited non-zero the decoder is not invoked, the job's output
\* file is not written, and once the job is over it is diagnosed as failed.
C5_DecodeAfterEncode ==
    \A i \in Jobs :
        /\ decCount[i] > 0 => ToolOk(encRes[i])
        /\ (encRes[i].kind = "exit" /\ encRes[i].rc # 0) =>
              /\ decCount[i] = 0
              /\ OutWav(infiles[i]) \notin disk
              /\ JobFinished(i) =>
                    /\ [kind |-> "tool", job |-> i, rc |-> encRes[i].rc] \in stderrLog
                    /\ error_count >= 1
                    /\ ~Warned(i)

C5_Witness ==
    /\ pc = "exited"
    /\ \E i \in Jobs : encRes[i].kind = "exit" /\ encRes[i].rc = 2 /\ encRes[i].via = "shell"
    /\ \E j \in Jobs : decCount[j] = 1

\* C6: tool invocations are never repeated: no job has its encoder or its
\* decoder invoked twice, a job that is over had its encoder invoked exactly
\* once, a job the loop has not reached had nothing invoked, and only
\* os.remove is ever called more than once for a job.
C6_NoToolRetry ==
    \A i \in Jobs :
        /\ encCount[i] <= 1
        /\ decCount[i] <= 1
        /\ JobFinished(i) => encCount[i] = 1
        /\ i > idx => (encCount[i] = 0 /\ decCount[i] = 0 /\ delCount[i] = 0)
        /\ ToolFailed(encRes[i]) => (decCount[i] = 0 /\ delCount[i] = 0)
        /\ ToolFailed(decRes[i]) => delCount[i] = 0

C6_Witness ==
    /\ pc = "exited"
    /\ Len(infiles) = 2
    /\ ToolFailed(encRes[1])
    /\ decCount[1] = 0
    /\ delCount[2] >= 2

\* C7 as stated: whenever the processing of a job has finished, its temp
\* file does not exist unless a cleanup warning was emitted for that job.
C7_Original ==
    \A i \in Jobs :
        JobFinished(i) => (TmpBrr(infiles[i]) \notin disk \/ Warned(i))

\* C7 as amended: when process_file reaches its end for a job (both stages
\* exited 0), the job's temp file does not exist at that point unless a
\* cleanup warning was emitted for that job.
C7_TransientOnSuccess ==
    pc = "pf_end" =>
        /\ BothOk(idx)
        /\ TmpBrr(infiles[idx]) \notin disk \/ Warned(idx)

C7_Witness ==
    /\ pc = "pf_end"
    /\ delCount[idx] >= 1
    /\ TmpBrr(infiles[idx]) \notin disk
    /\ ~Warned(idx)

\* C8: the outcome of the cleanup does not change the classification: the
\* succeeded counter counts exactly the finished jobs whose two stages exited
\* 0; a job with a cleanup warning made all its deletion attempts, is never
\* diagnosed as failed, keeps its temp file when it ends, and the loop goes
\* on to the items after it.
C8_CleanupNotFailure ==
    /\ success_count = Cardinality({ i \in FinishedJobs : BothOk(i) })
    /\ \A i \in Jobs :
          Warned(i) =>
              /\ BothOk(i)
              /\ ~Diagnosed(i)
              /\ delCount[i] = MaxRetries
              /\ (pc = "pf_end" /\ i = idx) => TmpBrr(infiles[i]) \in disk
              /\ pc = "exited" =>
                    /\ exitCode = 0
                    /\ \A j \in Jobs : encCount[j] = 1

C8_Witness ==
    /\ pc = "exited"
    /\ Len(infiles) = 2
    /\ Warned(1)
    /\ BothOk(2)
    /\ report.success = 2

\* C9: one cleanup makes no deletion attempt when the temp file does not
\* exist, otherwise stops at the first os.remove that succeeds, never makes
\* more than 6 attempts, and warns exactly when all 6 failed; after 3
\* failures the 4th attempt deletes the file and nothing is warned.
C9_CleanupInv ==
    /\ \A i \in Jobs : delCount[i] <= MaxRetries
    /\ \A i \in Jobs : Warned(i) => delCount[i] = MaxRetries
    /\ pc = "remove" => (delCount[idx] = lockInit - lockLeft /\ ~Warned(idx))
    /\ pc = "pf_end" =>
          /\ delCount[idx] = 0 => ~Warned(idx)
          /\ delCount[idx] > 0 =>
                /\ delCount[idx] = IF lockInit < MaxRetries THEN lockInit + 1 ELSE MaxRetries
                /\ Warned(idx) <=> lockInit >= MaxRetries
                /\ ~Warned(idx) => TmpBrr(infiles[idx]) \notin disk
          /\ (delCount[idx] > 0 /\ lockInit = 3) =>
                (delCount[idx] = 4 /\ ~Warned(idx) /\ TmpBrr(infiles[idx]) \notin disk)

C9_CleanupStep ==
    /\ (pc = "cleanup" /\ TmpBrr(infiles[idx]) \notin disk) =>
          (pc' = "pf_end" /\ delCount' = delCount /\ stderrLog' = stderrLog)
    /\ (pc = "cleanup" /\ TmpBrr(infiles[idx]) \in disk) => pc' = "remove"
    /\ (pc = "remove" /\ TmpBrr(infiles[idx]) \notin disk') => pc' = "pf_end"

C9_Cleanup == [](C9_CleanupInv) /\ [][C9_CleanupStep]_vars

C9_Witness ==
    /\ pc = "pf_end"
    /\ lockInit = 3
    /\ delCount[idx] = 4
    /\ ~Warned(idx)

\* C10: two distinct jobs of a batch never have the same temp path.
C10_TempUnique ==
    \A i, j \in Jobs : i # j => TmpBrr(infiles[i]) # TmpBrr(infiles[j])

\* the position of an entry name in the directory listing
ListPos(name) == CHOOSE k \in 1..Len(indirList) : indirList[k].name = name

\* C11: items are processed one at a time in discovery order: jobs follow the
\* order of the directory listing, a job is touched only while it is the
\* current one, every job before it is then over, and at most one job is in
\* progress at any time.
C11_SequentialInv ==
    /\ \A i \in Jobs :
          (encCount[i] + decCount[i] + delCount[i] > 0) =>
              /\ i <= idx
              /\ \A j \in 1..(i - 1) : JobFinished(j) /\ encCount[j] = 1
    /\ Cardinality({ i \in Jobs : encCount[i] > 0 /\ ~JobFinished(i) }) <= 1
    /\ \A i, j \in Jobs : i < j => ListPos(infiles[i]) < ListPos(infiles[j])

C11_SequentialStep ==
    /\ idx' \in {idx, idx + 1}
    /\ idx' = idx + 1 => (idx = 0 \/ JobFinished(idx))
    /\ \A i \in DOMAIN encCount :
          i # idx =>
              /\ encCount'[i] = encCount[i]
              /\ decCount'[i] = decCount[i]
              /\ delCount'[i] = delCount[i]
    /\ disk' # disk =>
          /\ idx >= 1
          /\ \/ disk' \ disk \subseteq {TmpBrr(infiles[idx]), OutWav(infiles[idx])}
             \/ disk \ disk' = {TmpBrr(infiles[idx])}

C11_Sequential == [](C11_SequentialInv) /\ [][C11_SequentialStep]_vars

C11_Witness ==
    /\ pc = "decode"
    /\ idx = 2
    /\ delCount[1] >= 2
    /\ ListPos(infiles[1]) = 1

\* an absolute path whose first component is a drive letter: X:\ or X:/
IsDrivePath(s) ==
    LET q == ParseWin(s)
    IN Len(q.drive) = 2 /\ q.drive[2] = ":" /\ q.root

\* C12: translating an already translated drive-letter path changes nothing:
\* translate(translate(p)) = translate(p) for every drive-letter path p.
C12_Idempotent ==
    (pc = "translated_twice" /\ IsDrivePath(win_path)) => cyg_back = cyg_path

\* the components of the input after its drive and of the result after
\* /cygdrive/<letter>/
InputComps == Split(SubSeq(win_path, 4, Len(win_path)), << >>, << >>)
OutputRest == SubSeq(cyg_path, Len(CygdrivePrefix) + 3, Len(cyg_path))

\* C13 as stated: the translation of a drive-letter path is /cygdrive/, the
\* lower-cased letter, and the components of the input joined by "/", with
\* no backslash.
C13_Original ==
    (pc # "translate" /\ IsDrivePath(win_path)) =>
        /\ cyg_path = CygdrivePrefix \o <<Lower(win_path[1])>> \o <<"/">>
                        \o Join(InputComps, "/")
        /\ \A i \in 1..Len(cyg_path) : cyg_path[i] # "\\"

\* C13 as amended: the translation of a drive-letter path starts with
\* /cygdrive/<lower-cased letter>/ and holds no backslash; what follows are
\* the components of the resolved path joined by "/": no ".." is left, each
\* component comes from the input, and they are exactly the input's when the
\* input holds no "..".
C13_DrivePrefix ==
    (pc # "translate" /\ IsDrivePath(win_path)) =>
        LET rest == Split(OutputRest, << >>, << >>)
        IN /\ Len(cyg_path) >= Len(CygdrivePrefix) + 2
           /\ SubSeq(cyg_path, 1, Len(CygdrivePrefix)) = CygdrivePrefix
           /\ cyg_path[Len(CygdrivePrefix) + 1] = Lower(win_path[1])
           /\ \E k \in 1..26 : LowerChars[k] = cyg_path[Len(CygdrivePrefix) + 1]
           /\ cyg_path[Len(CygdrivePrefix) + 2] = "/"
           /\ \A i \in 1..Len(cyg_path) : cyg_path[i] # "\\"
           /\ OutputRest = Join(rest, "/")
           /\ \A k \in 1..Len(rest) : rest[k] # <<".", ".">>
           /\ \A k \in 1..Len(rest) : \E m \in 1..Len(InputComps) : InputComps[m] = rest[k]
           /\ (\A m \in 1..Len(InputComps) : InputComps[m] # <<".", ".">>) => rest = InputComps

C13_Witness ==
    /\ pc = "translated"
    /\ win_path = <<"D", ":", "\\", "a", "\\", "B">>
    /\ cyg_path = CygdrivePrefix \o <<"d", "/", "a", "/", "B">>

\* a name that ends, whatever the case, with ".wav" after at least one
\* other character
EndsWithWav(name) ==
    /\ Len(name) > Len(DotWav)
    /\ LowerStr(SubSeq(name, Len(name) - Len(DotWav) + 1, Len(name))) = DotWav

\* the entries of the input directory that are regular .wav files
Matching ==
    { k \in 1..Len(indirList) :
        indirList[k].kind = "file" /\ EndsWithWav(indirList[k].name) }

\* C14: once get_infiles has run on an input directory, the jobs are exactly
\* its regular files with a .wav extension in any case, one job per file;
\* when there is none the setup fails with the fatal error and no job exists.
C14_Discovery ==
    (pc # "init_infiles" /\ indirKind = "dir") =>
        /\ { infiles[i] : i \in Jobs } = { indirList[k].name : k \in Matching }
        /\ Len(infiles) = Cardinality(Matching)
        /\ Matching = {} =>
              /\ pc \in {"raised", "exited"}
              /\ exc.type = "ValueError" /\ exc.at = "setup"
              /\ pc = "exited" => exitCode = 1

C14_Witness ==
    /\ pc = "exited"
    /\ exitCode = 0
    /\ Len(indirList) = 2
    /\ infiles = << <<"a", ".", "W", "A", "V">> >>

\* C15: os.remove is called for a job only after its encoder and its
\* decoder both exited 0; a job with a failed stage gets no deletion attempt
\* and no warning, and the steps that handle its failure leave its temp file
\* where it is.
C15_CleanupInv ==
    \A i \in Jobs :
        /\ delCount[i] > 0 => BothOk(i)
        /\ (ToolFailed(encRes[i]) \/ ToolFailed(decRes[i])) =>
              (delCount[i] = 0 /\ ~Warned(i))
        /\ (i = idx /\ pc \in {"cleanup", "remove", "pf_end"}) => BothOk(i)

C15_CleanupStep ==
    (idx >= 1 /\ (pc = "raised" \/ pc' = "raised")) =>
        /\ TmpBrr(infiles[idx]) \in disk => TmpBrr(infiles[idx]) \in disk'
        /\ delCount' = delCount

C15_CleanupOnSuccess == [](C15_CleanupInv) /\ [][C15_CleanupStep]_vars

C15_Witness ==
    /\ pc = "loop"
    /\ idx = 1
    /\ ToolOk(encRes[1])
    /\ ToolFailed(decRes[1])
    /\ TmpBrr(infiles[1]) \in disk
    /\ delCount[1] = 0

\* the program runs on its own: whenever it has a next step it takes one
\* (every tool invocation and every os.remove call returns)
FairSpec == Spec /\ WF_vars(Next)

\* the state of the batch run
Phase ==
    CASE pc \in {"init_infiles", "init_outpath", "init_bin", "init_bash", "batch_start"}
            -> "Idle"
      [] pc \in {"loop", "encode", "decode", "cleanup", "remove", "pf_end"}
            -> "Running"
      [] pc = "raised" -> IF exc.at = "item" THEN "Running" ELSE "Aborted"
      [] pc \in {"summary", "batch_done"} -> "Complete"
      [] pc = "exited" -> IF report.printed THEN "Complete" ELSE "Aborted"
      [] OTHER -> "Unknown"

\* C16: a batch run goes Idle -> Running -> Complete and never back, the loop
\* index never decreases, a completed batch made exactly one iteration per
\* item, no cleanup makes more than 6 attempts, and once setup has succeeded
\* the run reaches Complete.
C16_PhaseStep ==
    /\ <<Phase, Phase'>> \in
          { <<"Idle", "Idle">>, <<"Idle", "Running">>, <<"Idle", "Aborted">>,
            <<"Running", "Running">>, <<"Running", "Complete">>,
            <<"Complete", "Complete">>, <<"Aborted", "Aborted">> }
    /\ idx' \in {idx, idx + 1}
    /\ \A i \in DOMAIN encCount : encCount'[i] <= 1

C16_PhaseInv ==
    /\ retries <= MaxRetries
    /\ \A i \in Jobs : delCount[i] <= MaxRetries
    /\ Phase = "Complete" =>
          /\ idx = Len(infiles)
          /\ idx = Cardinality(Discovered)
          /\ \A i \in Jobs : encCount[i] = 1
          /\ success_count + error_count = idx

C16_Terminates ==
    /\ [](C16_PhaseInv)
    /\ [][C16_PhaseStep]_vars
    /\ (~SetupError) ~> (Phase = "Complete" /\ pc = "exited")

C16_Witness ==
    /\ pc = "exited"
    /\ Phase = "Complete"
    /\ Len(infiles) = 2
    /\ delCount[1] = MaxRetries
    /\ ToolFailed(encRes[2])

\* ------------------------------------------------------------ shell discovery
GitBash    == <<"C", ":", "\\", "G", "i", "t", "\\", "b">>
CygSysBash == <<"C", ":", "\\", "c", "y", "g", "w", "i", "n", "\\",
                "S", "Y", "S", "T", "E", "M", "3", "2", "\\", "b">>
OldCygBash == <<"E", ":", "\\", "C", "Y", "G", "W", "I", "N", "\\", "b">>

\* lines `where bash.exe` may print, with whether the file still exists
WhereLocs ==
    { [path |-> Sys32Bash,  exists |-> TRUE],
      [path |-> CygBash,    exists |-> TRUE],
      [path |-> GitBash,    exists |-> TRUE],
      [path |-> CygSysBash, exists |-> TRUE],
      [path |-> OldCygBash, exists |-> FALSE] }

WhereOutputs == UNION { [1..n -> WhereLocs] : n \in 1..MaxWhere }

ShellEnvsAll ==
    { [root |-> r, c64 |-> a, c32 |-> b, whereRc |-> 1, whereOut |-> << >>] :
        r \in {"unset", "ok", "stale"}, a \in BOOLEAN, b \in BOOLEAN }
    \cup
    { [root |-> r, c64 |-> a, c32 |-> b, whereRc |-> 0, whereOut |-> w] :
        r \in {"unset", "ok", "stale"}, a \in BOOLEAN, b \in BOOLEAN, w \in WhereOutputs }

\* a win32 run of one input file that has passed the three directory checks
\* and is about to look for the shell
InitShell ==
    /\ platform = "win32"
    /\ indirKind = "dir"
    /\ indirList = << [name |-> <<"a", ".", "w", "a", "v">>, kind |-> "file"] >>
    /\ outKind = "dir"
    /\ outInit \in {"missing", "dir"}
    /\ toolsKind = "ok"
    /\ shellEnv \in ShellEnvsAll
    /\ disk = {}
    /\ pc = "init_bash"
    /\ infiles = << <<"a", ".", "w", "a", "v">> >>
    /\ cygwin_bash = NotFound
    /\ idx = 0
    /\ success_count = 0
    /\ error_count = 0
    /\ retries = 0
    /\ exc = NoExc
    /\ exitCode = -1
    /\ report = NoReport
    /\ stderrLog = {}
    /\ encRes = << NoRun >>
    /\ decRes = << NoRun >>
    /\ encCount = << 0 >>
    /\ decCount = << 0 >>
    /\ delCount = << 0 >>
    /\ lockInit = 0
    /\ lockLeft = 0
    /\ cwd = HomeDir
    /\ win_path = << >>
    /\ cyg_path = NoPath
    /\ cyg_back = NoPath

NextShell ==
    \/ InitPlatform
    \/ MainExcept

SpecShell == InitShell /\ [][NextShell]_vars

\* a line of the system-wide search that is acceptable as the shell
Qualifies(loc) ==
    /\ Contains(LowerStr(loc.path), CygwinMarker)
    /\ ~Contains(LowerStr(loc.path), SystemMarker)
    /\ loc.exists

QualifyingLines ==
    IF shellEnv.whereRc = 0
    THEN { k \in 1..Len(shellEnv.whereOut) : Qualifies(shellEnv.whereOut[k]) }
    ELSE {}

\* C17: the shell is the first existing one of <CYGWIN_ROOT>/bin/bash.exe,
\* C:/cygwin64/bin/bash.exe, C:/cygwin/bin/bash.exe, else the first line of
\* the system-wide search that names an existing file with "cygwin" and
\* without "system32" in its lower-cased path, else discovery fails with
\* FileNotFoundError; a shell taken from the search is never under system32.
C17_ShellOrder ==
    (platform = "win32" /\ pc \notin {"init_infiles", "init_outpath", "init_bin", "init_bash"}
       /\ indirKind = "dir" /\ infiles # << >> /\ outKind = "dir" /\ toolsKind = "ok") =>
        CASE shellEnv.root = "ok" -> cygwin_bash = RootBash
          [] shellEnv.root # "ok" /\ shellEnv.c64 -> cygwin_bash = C64Bash
          [] shellEnv.root # "ok" /\ ~shellEnv.c64 /\ shellEnv.c32 -> cygwin_bash = C32Bash
          [] shellEnv.root # "ok" /\ ~shellEnv.c64 /\ ~shellEnv.c32 /\ QualifyingLines # {} ->
                LET first == CHOOSE k \in QualifyingLines : \A m \in QualifyingLines : k <= m
                IN /\ cygwin_bash = shellEnv.whereOut[first].path
                   /\ ~Contains(LowerStr(cygwin_bash), SystemMarker)
                   /\ exc.type # "FileNotFoundError"
          [] OTHER ->
                /\ cygwin_bash = NotFound
                /\ pc \in {"raised", "exited"}
                /\ exc.type = "FileNotFoundError"
                /\ pc = "exited" => exitCode = 1

C17_Witness ==
    /\ pc = "batch_start"
    /\ shellEnv.root = "stale"
    /\ Len(shellEnv.whereOut) = 2
    /\ shellEnv.whereOut[1].path = CygSysBash
    /\ cygwin_bash = CygBash

\* ------------------------------------------------------------ order of the setup
InputFails == indirKind # "dir" \/ Discovered = {}

\* the run ended in a setup error raised by the tool-directory or shell check
LaterFailure ==
    /\ ~InputFails
    /\ outInit # "file"
    /\ pc \in {"raised", "exited"}
    /\ exc.at = "setup"
    /\ exc.type \in {"ValueError", "FileNotFoundError"}

C18_OrderInv ==
    /\ InputFails =>
          /\ outKind = outInit
          /\ disk = {}
          /\ pc \in {"init_infiles", "raised", "exited"}
          /\ pc = "exited" => exitCode = 1
    /\ pc \in {"init_bin", "init_bash"} => (~InputFails /\ outKind = "dir")
    /\ pc = "init_bash" => toolsKind = "ok"
    /\ LaterFailure =>
          /\ outKind = "dir"
          /\ toolsKind # "ok" \/ (platform = "win32" /\ exc.type = "FileNotFoundError")
          /\ disk = {}

C18_OrderStep ==
    /\ pc = "init_infiles"  => pc' \in {"init_infiles", "init_outpath", "raised"}
    /\ pc = "init_outpath"  => pc' \in {"init_outpath", "init_bin", "raised"}
    /\ pc = "init_bin"      => pc' \in {"init_bin", "init_bash", "raised"}
    /\ pc = "init_bash"     => pc' \in {"init_bash", "batch_start", "raised"}
    /\ outKind' # outKind =>
          /\ pc = "init_outpath"
          /\ outKind = "missing"
          /\ outKind' = "dir"
          /\ pc' = "init_bin"

\* C18: setup checks the input directory, the output directory, the tool
\* directory and the shell in that order: when the input directory is missing
\* or holds no .wav file the output path and the files stay as they were and
\* the run ends with exit code 1, while a run that fails at the tool directory
\* or at the shell has by then turned a missing output path into a directory.
C18_SetupOrder == [](C18_OrderInv) /\ [][C18_OrderStep]_vars

C18_Witness ==
    /\ pc = "exited"
    /\ exitCode = 1
    /\ outInit = "missing"
    /\ outKind = "dir"
    /\ platform = "win32"
    /\ toolsKind = "ok"
    /\ exc.type = "FileNotFoundError"

====
